---- MODULE Spec2Model ----
(***************************************************************************)
(* Open-MQTT-Broadcaster: the connection handlers and the broadcast        *)
(* dispatcher.                                                             *)
(*                                                                         *)
(*   MH_*  src/mqtt_handler.py            MQTTHandler driven by MQTTConfig *)
(*   MC_*  src/modules/mqtt_connection.py MQTTHandler with the watchdog    *)
(*   _perform_broadcast ...  src/gui/main_window.py  MQTTBroadcaster       *)
(*                                                                         *)
(* Each part has its own specification (SpecMH, SpecMC, SpecBC);           *)
(* SpecHandler runs either handler.                                        *)
(***************************************************************************)
EXTENDS Naturals, Integers, Sequences, FiniteSets

VARIABLES
  \* ---- src/mqtt_handler.py: MQTTHandler ----
  mh_client,                  \* self.client: 0 is None, else the id of a paho client
  mh_config,                  \* self.config: NoConfig or an MQTTConfig
  mh_is_connected,            \* self.is_connected
  mh_wildcard_subscriptions,  \* self.wildcard_subscriptions: set of <<topic, qos>>
  mh_clients,                 \* the paho clients built so far: id -> [loop, link]
  mh_last,                    \* the last operation and what it did
  mh_since,                   \* what happened since the last connect() call
  mh_disc,                    \* disconnect() of a connected session: "called", then "reported"
  \* ---- src/modules/mqtt_connection.py: MQTTHandler ----
  mc_client,                  \* self.client: 0 is None, else the attempt that built it
  mc_is_connected,            \* self.is_connected
  mc_timer,                   \* self._check_connection_timer: 0 is None, else the attempt
  mc_timeout_occurred,        \* self._connection_timeout_occurred
  mc_connect,                 \* attempt -> where its connect() call stands
  mc_paho,                    \* attempt -> its paho client: [loop, link]
  mc_net,                     \* attempt -> its client's network thread: [pc, rc]
  mc_tm,                      \* attempt -> its threading.Timer and timer thread
  mc_ui,                      \* the caller's thread inside disconnect()
  mc_cb,                      \* attempt -> the connection callbacks made for it
  mc_hist,                    \* attempt -> what the claims need of its history
  mc_last,                    \* the last publish() and what it did
  \* ---- src/gui/main_window.py: MQTTBroadcaster ----
  bc_batch,                   \* the number of broadcasts started (the current batch)
  bc_queue,                   \* self._broadcast_queue: the channels not yet taken
  bc_stats,                   \* self._broadcast_stats
  bc_workers,                 \* <<batch, i>> -> worker thread [pc, channel, job]
  bc_poll,                    \* the batch whose _check_broadcast_complete is pending, or 0
  bc_button,                  \* the broadcast button's state
  bc_report,                  \* batch -> the reports of completion, and what held at the report
  bc_owed,                    \* batch -> topic -> publish calls the batch still owes the topic
  bc_any_ok,                  \* some publish call has succeeded
  bc_after,                   \* a progress update queued with root.after(0, ...) is pending
  \* ---- src/gui/main_window.py: the channel statistics ----
  st_channel_stats,           \* self.channel_stats: topic -> [received, sent]
  st_lock,                    \* self._stats_lock: the thread that holds it, or 0
  st_thread,                  \* thread -> where it stands in _update_channel_stats
  st_loaded,                  \* _initialize_after_gui has run _load_channel_stats
  st_file,                    \* the file channel_stats.json
  st_run,                     \* the number of times the program has been started
  st_saved,                   \* the mapping the last _save_channel_stats wrote
  st_expect,                  \* the counters with every returned call applied once
  st_heard,                   \* topic -> received at load + on-message events since
  st_ui_thread,               \* the thread on which a widget was last updated
  \* ---- src/gui/components/control_components.py: the connect button ----
  cc_button,                  \* connect_button: its text and state
  cc_thread,                  \* a connect_thread of _connect_to_broker is running
  cc_after,                   \* root.after(0, _on_connection_status(False, ...)) is pending
  cc_session,                 \* the handler's attempt, as the window sees it
  cc_status,                  \* status_bar.connection_status
  cc_presses                  \* clicks on the connect button so far

mh_vars == <<mh_client, mh_config, mh_is_connected, mh_wildcard_subscriptions,
             mh_clients, mh_last, mh_since, mh_disc>>

mc_vars == <<mc_client, mc_is_connected, mc_timer, mc_timeout_occurred,
             mc_connect, mc_paho, mc_net, mc_tm, mc_ui, mc_cb, mc_hist, mc_last>>

bc_vars == <<bc_batch, bc_queue, bc_stats, bc_workers, bc_poll,
             bc_button, bc_report, bc_owed, bc_any_ok, bc_after>>

st_vars == <<st_channel_stats, st_lock, st_thread, st_loaded, st_file, st_run,
             st_saved, st_expect, st_heard, st_ui_thread>>

cc_vars == <<cc_button, cc_thread, cc_after, cc_session, cc_status, cc_presses>>

vars == <<mh_vars, mc_vars, bc_vars, st_vars, cc_vars>>

\* the variables outside each part
not_mh == <<mc_vars, bc_vars, st_vars, cc_vars>>
not_mc == <<mh_vars, bc_vars, st_vars, cc_vars>>
not_st == <<mh_vars, mc_vars, bc_vars, cc_vars>>
not_cc == <<mh_vars, mc_vars, bc_vars, st_vars>>
\* the broadcast publishes through the handler of mqtt_connection.py
mc_session == <<mc_client, mc_is_connected>>
mc_rest == <<mc_timer, mc_timeout_occurred, mc_connect, mc_paho, mc_net, mc_tm,
             mc_ui, mc_cb, mc_hist, mc_last>>
not_bc == <<mh_vars, mc_rest, st_vars, cc_vars>>

-----------------------------------------------------------------------------
(* Python values that reach a comparison with 0 *)

PyInt(n) == [t |-> "int", v |-> n]
PyNone == [t |-> "none", v |-> 0]
\* the flags dictionary paho passes to on_connect: {'session present': 0}
PyFlagsDict == [t |-> "dict", v |-> 0]

\* Python's  x == 0
PyEqZero(x) == x.t = "int" /\ x.v = 0

Inc2(n) == IF n < 2 THEN n + 1 ELSE n

-----------------------------------------------------------------------------
(* src/mqtt_handler.py *)

\* the number of paho clients one handler builds in a run
MaxClients == 2

\* CONNACK reason codes: 0 accepted, 5 not authorised
ReasonCodes == {0, 5}
\* on_disconnect codes: 0 clean, 7 connection lost
DisconnectCodes == {0, 7}

Topics == {"a", "b"}
QoS == {0}

NoConfig == [none |-> TRUE]

\* MQTTConfig: the fields the handler's control flow reads
MH_Config0 == [mqtt_version |-> "MQTTv311", host |-> "h", port |-> 1883,
               topic |-> "a", qos |-> 0, use_ssl |-> FALSE]

\* the configurations connect() is called with: two protocol versions, one
\* of them with TLS, and the three invalid ones (empty host, port out of
\* range, empty topic)
MQTTConfig ==
  {MH_Config0,
   [MH_Config0 EXCEPT !.mqtt_version = "MQTTv5", !.use_ssl = TRUE],
   [MH_Config0 EXCEPT !.host = ""],
   [MH_Config0 EXCEPT !.port = 70000],
   [MH_Config0 EXCEPT !.topic = ""]}

\* the configurations the specification calls invalid
MH_invalid(config) ==
  config.host = "" \/ config.port \notin 0..65535 \/ config.topic = ""

\* client.connect(host, port) raises for these before it dials: ValueError
\* for an empty host, OverflowError from the socket for a port above 65535
MH_undiallable(config) == config.host = "" \/ config.port \notin 1..65535

\* what one operation did: the operation before it, the exception it raised, the calls it made on a paho
\* client, the callbacks it invoked (conn_cb: the success flags, disc_cb: the
\* reason codes), and for an on-connect event the broker's reason code
MH_NoOp == [op |-> "init", prev |-> "init", pre_connected |-> FALSE, raised |-> "none",
            calls |-> <<>>, subscribed |-> {}, conn_cb |-> <<>>, disc_cb |-> <<>>,
            msg_cb |-> 0, rc |-> 0, built |-> FALSE, invalid |-> FALSE,
            subs_kept |-> TRUE, at |-> "none"]

MH_Since0 == [connect |-> "none", on_connect_ok |-> 0, on_connect_fail |-> 0,
              other |-> 0, conn_cb |-> <<>>]

MH_Init ==
  /\ mh_client = 0
  /\ mh_config = NoConfig
  /\ mh_is_connected = FALSE
  /\ mh_wildcard_subscriptions = {}
  /\ mh_clients = <<>>
  /\ mh_last = MH_NoOp
  /\ mh_since = MH_Since0
  /\ mh_disc = "none"

\* the operation before: all that is asked of it is whether it was disconnect()
MH_prev == IF mh_last.op = "disconnect" THEN "disconnect" ELSE "other"

MH_Other(since) == [since EXCEPT !.other = Inc2(@)]

\* what a dial that was made did to the operation record and to the client
MH_dialled(last, dial) ==
  IF dial = "ok"
    THEN [last EXCEPT !.calls = <<"connect", "loop_start">>]
    ELSE [last EXCEPT !.raised = "ConnectionError", !.at = "dial",
                      !.calls = <<"connect">>, !.conn_cb = <<FALSE>>]

MH_since_dialled(dial) ==
  IF dial = "ok" THEN [MH_Since0 EXCEPT !.connect = "ok"]
  ELSE [MH_Since0 EXCEPT !.connect = "raised", !.conn_cb = <<FALSE>>]

\* connect(config): configure(config), outside the try of connect(), stores
\* the configuration and builds a new client, leaving the old one as it is;
\* its TLS block raises ValueError.  Then the dial, inside the try, which
\* raises (the callback is invoked with success = false and the exception
\* raised again) or starts the network loop.
MH_connect_config(config, construct, dial) ==
  /\ Len(mh_clients) < MaxClients
  /\ construct = "raise" => (config.use_ssl /\ dial = "raise")
  /\ MH_undiallable(config) => dial = "raise"
  /\ mh_config' = config
  /\ mh_client' = Len(mh_clients) + 1
  /\ LET last == [MH_NoOp EXCEPT !.op = "connect", !.prev = MH_prev,
                    !.pre_connected = mh_is_connected, !.built = TRUE,
                    !.invalid = MH_invalid(config)]
     IN
     IF construct = "raise"
       THEN /\ mh_clients' = Append(mh_clients, [loop |-> FALSE, link |-> "none"])
            /\ mh_last' = [last EXCEPT !.raised = "ValueError", !.at = "configure"]
            /\ mh_since' = [MH_Since0 EXCEPT !.connect = "raised"]
       ELSE /\ mh_clients' = Append(mh_clients,
                               IF dial = "ok" THEN [loop |-> TRUE, link |-> "connecting"]
                               ELSE [loop |-> FALSE, link |-> "none"])
            /\ mh_last' = MH_dialled(last, dial)
            /\ mh_since' = MH_since_dialled(dial)
  /\ UNCHANGED <<mh_is_connected, mh_wildcard_subscriptions, mh_disc>>
  /\ UNCHANGED not_mh

\* connect() with no argument: ValueError without a stored configuration,
\* else the stored client is dialled again.
MH_connect_stored(dial) ==
  /\ UNCHANGED not_mh
  /\ (mh_config # NoConfig /\ MH_undiallable(mh_config)) => dial = "raise"
  /\ mh_config = NoConfig => dial = "raise"
  /\ LET last == [MH_NoOp EXCEPT !.op = "connect", !.prev = MH_prev,
                    !.pre_connected = mh_is_connected,
                    !.invalid = IF mh_config = NoConfig THEN TRUE
                                ELSE MH_invalid(mh_config)]
     IN
     IF mh_config = NoConfig
       THEN /\ mh_last' = [last EXCEPT !.raised = "ValueError", !.at = "config"]
            /\ mh_since' = [MH_Since0 EXCEPT !.connect = "raised"]
            /\ UNCHANGED mh_clients
       ELSE /\ mh_clients' = [mh_clients EXCEPT ![mh_client] =
                                IF dial = "ok" THEN [loop |-> TRUE, link |-> "connecting"]
                                ELSE [@ EXCEPT !.link = "none"]]
            /\ mh_last' = MH_dialled(last, dial)
            /\ mh_since' = MH_since_dialled(dial)
  /\ UNCHANGED <<mh_client, mh_config, mh_is_connected, mh_wildcard_subscriptions,
                 mh_disc>>

MH_connect ==
  \/ \E config \in MQTTConfig, construct \in {"ok", "raise"}, dial \in {"ok", "raise"} :
       MH_connect_config(config, construct, dial)
  \/ \E dial \in {"ok", "raise"} : MH_connect_stored(dial)

\* disconnect(): client.disconnect(), loop_stop(), is_connected = False,
\* wildcard_subscriptions.clear(); any exception is logged and raised again.
\* With no client the first call is an attribute access on None.  When the
\* client has its socket and its network loop, the loop writes the DISCONNECT
\* (or closes a refused connection) and calls on_disconnect before
\* loop_stop() has joined it; a client without a socket answers NO_CONN.
MH_disconnect ==
  /\ UNCHANGED not_mh
  /\ IF mh_client = 0
    THEN /\ mh_last' = [MH_NoOp EXCEPT !.op = "disconnect", !.prev = MH_prev,
                          !.pre_connected = mh_is_connected,
                          !.raised = "AttributeError"]
         /\ mh_since' = MH_Other(mh_since)
         /\ UNCHANGED <<mh_client, mh_config, mh_is_connected,
                        mh_wildcard_subscriptions, mh_clients, mh_disc>>
    ELSE LET cl == mh_clients[mh_client]
             fires == cl.loop /\ cl.link \in {"connecting", "up", "refused"}
         IN
         /\ mh_clients' = [mh_clients EXCEPT ![mh_client] =
                             [loop |-> FALSE, link |-> "none"]]
         /\ mh_is_connected' = FALSE
         /\ mh_wildcard_subscriptions' = {}
         /\ mh_last' = [MH_NoOp EXCEPT !.op = "disconnect", !.prev = MH_prev,
                          !.pre_connected = mh_is_connected,
                          !.calls = <<"disconnect", "loop_stop">>,
                          !.subs_kept = (mh_wildcard_subscriptions = {}),
                          !.disc_cb = IF ~fires THEN <<>>
                                      ELSE IF cl.link = "refused" THEN <<5>> ELSE <<0>>]
         /\ mh_since' = MH_Other(mh_since)
         /\ mh_disc' = IF fires THEN "reported"
                       ELSE IF mh_is_connected THEN "called" ELSE mh_disc
         /\ UNCHANGED <<mh_client, mh_config>>

\* the registry after wildcard_subscriptions[topic] = qos
MH_registered(registry, topic, qos) ==
  {sub \in registry : sub[1] # topic} \cup {<<topic, qos>>}

\* subscribe(topic, qos) without the test of is_connected
MH_subscribe_unchecked(topic, qos) ==
  /\ mh_wildcard_subscriptions' = MH_registered(mh_wildcard_subscriptions, topic, qos)
  /\ mh_last' = [MH_NoOp EXCEPT !.op = "subscribe", !.prev = MH_prev,
                   !.pre_connected = mh_is_connected,
                   !.calls = <<"subscribe">>,
                   !.subs_kept = (mh_wildcard_subscriptions' = mh_wildcard_subscriptions)]
  /\ mh_since' = MH_Other(mh_since)
  /\ UNCHANGED <<mh_client, mh_config, mh_is_connected, mh_clients, mh_disc>>
  /\ UNCHANGED not_mh

\* subscribe(topic, qos), lines 124-135
MH_subscribe(topic, qos) ==
  /\ IF ~mh_is_connected
       THEN /\ UNCHANGED mh_wildcard_subscriptions
            /\ mh_last' = [MH_NoOp EXCEPT !.op = "subscribe", !.prev = MH_prev,
                             !.pre_connected = mh_is_connected,
                             !.raised = "RuntimeError",
                             !.subs_kept = (mh_wildcard_subscriptions' =
                                              mh_wildcard_subscriptions)]
       ELSE /\ mh_wildcard_subscriptions' =
                 MH_registered(mh_wildcard_subscriptions, topic, qos)
            /\ mh_last' = [MH_NoOp EXCEPT !.op = "subscribe", !.prev = MH_prev,
                             !.pre_connected = mh_is_connected,
                             !.calls = <<"subscribe">>,
                             !.subs_kept = (mh_wildcard_subscriptions' =
                                              mh_wildcard_subscriptions)]
  /\ mh_since' = MH_Other(mh_since)
  /\ UNCHANGED <<mh_client, mh_config, mh_is_connected, mh_clients, mh_disc>>
  /\ UNCHANGED not_mh

\* unsubscribe(topic), lines 137-148
MH_unsubscribe(topic) ==
  /\ IF ~mh_is_connected
       THEN /\ UNCHANGED mh_wildcard_subscriptions
            /\ mh_last' = [MH_NoOp EXCEPT !.op = "unsubscribe", !.prev = MH_prev,
                             !.pre_connected = mh_is_connected,
                             !.raised = "RuntimeError",
                             !.subs_kept = (mh_wildcard_subscriptions' =
                                              mh_wildcard_subscriptions)]
       ELSE /\ mh_wildcard_subscriptions' =
                 {sub \in mh_wildcard_subscriptions : sub[1] # topic}
            /\ mh_last' = [MH_NoOp EXCEPT !.op = "unsubscribe", !.prev = MH_prev,
                             !.pre_connected = mh_is_connected,
                             !.calls = <<"unsubscribe">>,
                             !.subs_kept = (mh_wildcard_subscriptions' =
                                              mh_wildcard_subscriptions)]
  /\ mh_since' = MH_Other(mh_since)
  /\ UNCHANGED <<mh_client, mh_config, mh_is_connected, mh_clients, mh_disc>>
  /\ UNCHANGED not_mh

\* publish(topic, payload)
MH_publish(topic) ==
  /\ IF ~mh_is_connected
       THEN mh_last' = [MH_NoOp EXCEPT !.op = "publish", !.prev = MH_prev,
                          !.pre_connected = mh_is_connected,
                          !.raised = "RuntimeError"]
       ELSE mh_last' = [MH_NoOp EXCEPT !.op = "publish", !.prev = MH_prev,
                          !.pre_connected = mh_is_connected,
                          !.calls = <<"publish">>]
  /\ mh_since' = MH_Other(mh_since)
  /\ UNCHANGED <<mh_client, mh_config, mh_is_connected,
                 mh_wildcard_subscriptions, mh_clients, mh_disc>>
  /\ UNCHANGED not_mh

\* the reason code _on_connect reads out of its arguments
MH_reason_code(config, flags_or_rc, rc_or_prop) ==
  IF config.mqtt_version = "MQTTv5"
    THEN flags_or_rc
    ELSE IF rc_or_prop # PyNone THEN rc_or_prop ELSE flags_or_rc

\* _on_connect(client, userdata, flags_or_rc, rc_or_prop): paho's network
\* thread of client c calls on_connect(client, userdata, flags, rc[, props])
\* when the broker's CONNACK carries rc; after a refusal it closes the socket
\* and goes on to on_disconnect.  On success the handler subscribes the
\* configured topic, when it is not empty, and every topic of the registry.
MH_on_connect(c, rc) ==
  /\ c \in 1..Len(mh_clients)
  /\ mh_clients[c].loop /\ mh_clients[c].link = "connecting"
  /\ mh_clients' = [mh_clients EXCEPT ![c].link = IF rc = 0 THEN "up" ELSE "refused"]
  /\ LET reason_code == MH_reason_code(mh_config, PyFlagsDict, PyInt(rc)) IN
     IF PyEqZero(reason_code)
       THEN /\ mh_is_connected' = TRUE
            /\ mh_last' = [MH_NoOp EXCEPT !.op = "on_connect", !.prev = MH_prev, !.rc = rc,
                             !.pre_connected = mh_is_connected,
                             !.subscribed = mh_wildcard_subscriptions \cup
                                (IF mh_config.topic # ""
                                   THEN {<<mh_config.topic, mh_config.qos>>} ELSE {}),
                             !.calls = IF mh_config.topic # ""
                                          \/ mh_wildcard_subscriptions # {}
                                         THEN <<"subscribe">> ELSE <<>>,
                             !.conn_cb = <<TRUE>>]
            /\ mh_since' = [mh_since EXCEPT
                              !.on_connect_ok = IF rc = 0 THEN Inc2(@) ELSE @,
                              !.on_connect_fail = IF rc = 0 THEN @ ELSE Inc2(@),
                              !.conn_cb = IF Len(@) < 2 THEN Append(@, TRUE) ELSE @]
       ELSE /\ mh_is_connected' = mh_is_connected
            /\ mh_last' = [MH_NoOp EXCEPT !.op = "on_connect", !.prev = MH_prev, !.rc = rc,
                             !.pre_connected = mh_is_connected,
                             !.conn_cb = <<FALSE>>]
            /\ mh_since' = [mh_since EXCEPT
                              !.on_connect_ok = IF rc = 0 THEN Inc2(@) ELSE @,
                              !.on_connect_fail = IF rc = 0 THEN @ ELSE Inc2(@),
                              !.conn_cb = IF Len(@) < 2 THEN Append(@, FALSE) ELSE @]
  /\ UNCHANGED <<mh_client, mh_config, mh_wildcard_subscriptions, mh_disc>>
  /\ UNCHANGED not_mh

\* _on_connect(None, None, None, rc) called on a handler that was never
\* configured, as the unit tests call it: line 153 reads
\* self.config.mqtt_version with self.config None and raises AttributeError
MH_on_connect_unconfigured(rc) ==
  /\ mh_config = NoConfig
  /\ mh_last' = [MH_NoOp EXCEPT !.op = "on_connect", !.prev = MH_prev, !.rc = rc,
                   !.pre_connected = mh_is_connected,
                   !.raised = "AttributeError"]
  /\ mh_since' = MH_Other(mh_since)
  /\ UNCHANGED <<mh_client, mh_config, mh_is_connected,
                 mh_wildcard_subscriptions, mh_clients, mh_disc>>
  /\ UNCHANGED not_mh

\* _on_message(client, userdata, message)
MH_on_message(c, topic) ==
  /\ c \in 1..Len(mh_clients)
  /\ mh_clients[c].loop /\ mh_clients[c].link = "up"
  /\ mh_last' = [MH_NoOp EXCEPT !.op = "on_message", !.prev = MH_prev,
                   !.pre_connected = mh_is_connected, !.msg_cb = 1]
  /\ mh_since' = MH_Other(mh_since)
  /\ UNCHANGED <<mh_client, mh_config, mh_is_connected,
                 mh_wildcard_subscriptions, mh_clients, mh_disc>>
  /\ UNCHANGED not_mh

\* an _on_disconnect that clears the registry of subscriptions, as
\* disconnect() does
MH_on_disconnect_clearing(c, rc) ==
  /\ c \in 1..Len(mh_clients)
  /\ mh_clients[c].loop
  /\ IF mh_clients[c].link = "refused" THEN rc = 5
     ELSE mh_clients[c].link = "up" /\ rc \in DisconnectCodes
  /\ mh_clients' = [mh_clients EXCEPT ![c].link = "down"]
  /\ mh_disc' = IF mh_disc = "called" THEN "reported" ELSE mh_disc
  /\ mh_is_connected' = FALSE
  /\ mh_wildcard_subscriptions' = {}
  /\ mh_last' = [MH_NoOp EXCEPT !.op = "on_disconnect", !.prev = MH_prev, !.rc = rc,
                   !.pre_connected = mh_is_connected, !.disc_cb = <<rc>>]
  /\ mh_since' = MH_Other(mh_since)
  /\ UNCHANGED <<mh_client, mh_config>>
  /\ UNCHANGED not_mh

\* _on_disconnect(client, userdata, rc): the connection was lost or closed by
\* the broker, or the broker's CONNACK refused it (rc = 5)
MH_on_disconnect(c, rc) ==
  /\ c \in 1..Len(mh_clients)
  /\ mh_clients[c].loop
  /\ IF mh_clients[c].link = "refused" THEN rc = 5
     ELSE mh_clients[c].link = "up" /\ rc \in DisconnectCodes
  /\ mh_clients' = [mh_clients EXCEPT ![c].link = "down"]
  /\ mh_disc' = IF mh_disc = "called" THEN "reported" ELSE mh_disc
  /\ mh_is_connected' = FALSE
  /\ mh_last' = [MH_NoOp EXCEPT !.op = "on_disconnect", !.prev = MH_prev, !.rc = rc,
                   !.pre_connected = mh_is_connected, !.disc_cb = <<rc>>]
  /\ mh_since' = MH_Other(mh_since)
  /\ UNCHANGED <<mh_client, mh_config, mh_wildcard_subscriptions>>
  /\ UNCHANGED not_mh

\* paho's network loop dials again after a refused or lost connection
MH_client_reconnect(c) ==
  /\ c \in 1..Len(mh_clients)
  /\ mh_clients[c].loop /\ mh_clients[c].link = "down"
  /\ mh_clients' = [mh_clients EXCEPT ![c].link = "connecting"]
  /\ UNCHANGED <<mh_client, mh_config, mh_is_connected,
                 mh_wildcard_subscriptions, mh_last, mh_since, mh_disc>>
  /\ UNCHANGED not_mh

-----------------------------------------------------------------------------
(* src/modules/mqtt_connection.py.  connect() runs on a thread of its own    *)
(* (main_window.py, connect_thread), each paho client has its network        *)
(* thread, each threading.Timer its timer thread; disconnect() runs on the   *)
(* caller's thread or, from _timeout_callback, on the timer thread.  No lock *)
(* is taken anywhere: one action is one step of one thread.                  *)

\* the number of connect() calls in a run
MaxAttempts == 2

Attempts == 1..MaxAttempts

MC_NoPublish == [op |-> "init", pre_connected |-> FALSE, raised |-> "none",
                 calls |-> <<>>]

MC_CbNone == [success |-> 0, failure |-> 0, timeout |-> 0, error |-> 0]

MC_Hist0 == [oc_early |-> FALSE, oc_late_ok |-> FALSE, before_fire |-> FALSE]

\* the threading.Timer of attempt a has not fired
MC_NotFired(a) == mc_tm[a] \in {"none", "waiting", "cancelled"}

\* history: disconnect() is called for attempt a, or _on_connect or
\* _on_disconnect of its client returns, before its watchdog has fired or after
MC_handled(hist, a) ==
  IF a # 0 /\ MC_NotFired(a) THEN [hist EXCEPT ![a].before_fire = TRUE] ELSE hist

MC_Init ==
  /\ mc_client = 0
  /\ mc_is_connected = FALSE
  /\ mc_timer = 0
  /\ mc_timeout_occurred = FALSE
  /\ mc_connect = [a \in Attempts |-> "idle"]
  /\ mc_paho = [a \in Attempts |-> [loop |-> FALSE, link |-> "none"]]
  /\ mc_net = [a \in Attempts |-> [pc |-> "idle", rc |-> 0]]
  /\ mc_tm = [a \in Attempts |-> "none"]
  /\ mc_ui = "idle"
  /\ mc_cb = [a \in Attempts |-> MC_CbNone]
  /\ mc_hist = [a \in Attempts |-> MC_Hist0]
  /\ mc_last = MC_NoPublish

\* threading.Timer.cancel(): stops a timer that has not fired yet
MC_cancel(tm, t) ==
  IF t # 0 /\ tm[t] = "waiting" THEN [tm EXCEPT ![t] = "cancelled"] ELSE tm

\* if self._check_connection_timer is not None: cancel it and set it to None
MC_cancel_timer ==
  /\ mc_tm' = MC_cancel(mc_tm, mc_timer)
  /\ mc_timer' = 0

MC_ConnectIdle == \A b \in Attempts : mc_connect[b] \in {"idle", "done", "raised"}

\* self.connection_callback(...) is invoked for attempt a
MC_callback(cb, a, kind) == [cb EXCEPT ![a][kind] = Inc2(@)]

\* connect(host, port, protocol, topic) is called: attempt a begins.  The
\* calls are numbered in the order they are made and do not overlap.
\* line 23: self._connection_timeout_occurred = False
MC_connect_L23(a) ==
  /\ mc_connect[a] = "idle"
  /\ MC_ConnectIdle
  /\ \A b \in Attempts : b < a => mc_connect[b] # "idle"
  /\ mc_timeout_occurred' = FALSE
  /\ mc_connect' = [mc_connect EXCEPT ![a] = "L24"]
  /\ UNCHANGED <<mc_client, mc_is_connected, mc_timer, mc_paho, mc_net, mc_tm,
                 mc_ui, mc_cb, mc_hist, mc_last>>
  /\ UNCHANGED not_mc

\* lines 24-34: the timer of an earlier attempt is cancelled;
\* self.client = mqtt.Client(): the earlier client is dropped as it is, its
\* network loop still running
MC_connect_L24(a) ==
  /\ mc_connect[a] = "L24"
  /\ MC_cancel_timer
  /\ mc_client' = a
  /\ mc_connect' = [mc_connect EXCEPT ![a] = "L37"]
  /\ UNCHANGED <<mc_is_connected, mc_timeout_occurred, mc_paho,
                 mc_net, mc_ui, mc_cb, mc_hist, mc_last>>
  /\ UNCHANGED not_mc

\* line 37: self.client.connect(host, port) dials, or raises (also when a
\* disconnect() has set self.client to None meanwhile)
MC_connect_L37(a, dial) ==
  /\ mc_connect[a] = "L37"
  /\ IF mc_client = 0 \/ dial = "raise"
       THEN /\ mc_connect' = [mc_connect EXCEPT ![a] = "L44"]
            /\ UNCHANGED mc_paho
       ELSE /\ mc_connect' = [mc_connect EXCEPT ![a] = "L38"]
            /\ mc_paho' = [mc_paho EXCEPT ![mc_client].link = "connecting"]
  /\ UNCHANGED <<mc_client, mc_is_connected, mc_timer, mc_timeout_occurred,
                 mc_net, mc_tm, mc_ui, mc_cb, mc_hist, mc_last>>
  /\ UNCHANGED not_mc

\* lines 38-40: self.topic = topic; self.client.subscribe(topic);
\* self.client.loop_start()
MC_connect_L38(a) ==
  /\ mc_connect[a] = "L38"
  /\ IF mc_client = 0
       THEN /\ mc_connect' = [mc_connect EXCEPT ![a] = "L44"]
            /\ UNCHANGED mc_paho
       ELSE /\ mc_connect' = [mc_connect EXCEPT ![a] = "L41"]
            /\ mc_paho' = [mc_paho EXCEPT ![mc_client].loop = TRUE]
  /\ UNCHANGED <<mc_client, mc_is_connected, mc_timer, mc_timeout_occurred,
                 mc_net, mc_tm, mc_ui, mc_cb, mc_hist, mc_last>>
  /\ UNCHANGED not_mc

\* lines 41-42: the watchdog is armed
MC_connect_L41(a) ==
  /\ mc_connect[a] = "L41"
  /\ mc_timer' = a
  /\ mc_tm' = [mc_tm EXCEPT ![a] = "waiting"]
  /\ mc_connect' = [mc_connect EXCEPT ![a] = "done"]
  /\ UNCHANGED <<mc_client, mc_is_connected, mc_timeout_occurred, mc_paho,
                 mc_net, mc_ui, mc_cb, mc_hist, mc_last>>
  /\ UNCHANGED not_mc

\* lines 43-50: except Exception: the timer is cancelled;
\* self.connection_callback(False, str(e)); raise
MC_connect_L44(a) ==
  /\ mc_connect[a] = "L44"
  /\ MC_cancel_timer
  /\ mc_cb' = MC_callback(mc_cb, a, "error")
  /\ mc_connect' = [mc_connect EXCEPT ![a] = "raised"]
  /\ UNCHANGED <<mc_client, mc_is_connected, mc_timeout_occurred, mc_paho,
                 mc_net, mc_ui, mc_hist, mc_last>>
  /\ UNCHANGED not_mc

\* the watchdog of attempt a has not yet reported
MC_BeforeReport(a) ==
  mc_tm[a] \in {"none", "waiting", "cancelled", "T101", "T103", "T104"}

\* the network thread of client c reads a CONNACK with reason code rc and
\* calls _on_connect(client, userdata, flags, rc);
\* lines 72-74: the watchdog is cancelled
MC_on_connect_N72(c, rc) ==
  /\ mc_paho[c].loop /\ mc_paho[c].link = "connecting"
  /\ mc_net[c].pc = "idle"
  /\ mc_paho' = [mc_paho EXCEPT ![c].link = IF rc = 0 THEN "up" ELSE "refused"]
  /\ MC_cancel_timer
  /\ mc_net' = [mc_net EXCEPT ![c] = [pc |-> "N75", rc |-> rc]]
  /\ mc_hist' = [mc_hist EXCEPT ![c] =
                   IF MC_BeforeReport(c)
                     THEN [@ EXCEPT !.oc_early = TRUE]
                     ELSE [@ EXCEPT !.oc_late_ok = @ \/ rc = 0]]
  /\ UNCHANGED <<mc_client, mc_is_connected, mc_timeout_occurred,
                 mc_connect, mc_ui, mc_cb, mc_last>>
  /\ UNCHANGED not_mc

\* _on_connect, lines 75-76: if self._connection_timeout_occurred: return
MC_on_connect_N75(c) ==
  /\ mc_net[c].pc = "N75"
  /\ mc_net' = [mc_net EXCEPT ![c] = IF mc_timeout_occurred
                                       THEN [pc |-> "idle", rc |-> 0]
                                       ELSE [@ EXCEPT !.pc = "N77"]]
  /\ mc_hist' = IF mc_timeout_occurred THEN MC_handled(mc_hist, c) ELSE mc_hist
  /\ UNCHANGED <<mc_client, mc_is_connected, mc_timer, mc_timeout_occurred,
                 mc_connect, mc_paho, mc_tm, mc_ui, mc_cb, mc_last>>
  /\ UNCHANGED not_mc

\* _on_connect, lines 77-84: if rc == 0: self.is_connected = True and
\* connection_callback(True); else connection_callback(False, error_message)
MC_on_connect_N77(c) ==
  /\ mc_net[c].pc = "N77"
  /\ mc_is_connected' = IF mc_net[c].rc = 0 THEN TRUE ELSE mc_is_connected
  /\ mc_cb' = MC_callback(mc_cb, c, IF mc_net[c].rc = 0 THEN "success" ELSE "failure")
  /\ mc_net' = [mc_net EXCEPT ![c] = [pc |-> "idle", rc |-> 0]]
  /\ mc_hist' = MC_handled(mc_hist, c)
  /\ UNCHANGED <<mc_client, mc_timer, mc_timeout_occurred, mc_connect, mc_paho,
                 mc_tm, mc_ui, mc_last>>
  /\ UNCHANGED not_mc

\* the network thread of client c finds the connection gone, or refused by
\* the broker's CONNACK (rc = 5), and calls
\* _on_disconnect(client, userdata, rc), lines 93-98: self.is_connected =
\* False, the disconnection callback, and the watchdog is cancelled
MC_on_disconnect(c, rc) ==
  /\ mc_paho[c].loop
  /\ IF mc_paho[c].link = "refused" THEN rc = 5
     ELSE mc_paho[c].link = "up" /\ rc \in DisconnectCodes
  /\ mc_net[c].pc = "idle"
  /\ mc_paho' = [mc_paho EXCEPT ![c].link = "down"]
  /\ mc_is_connected' = FALSE
  /\ MC_cancel_timer
  /\ mc_hist' = MC_handled(mc_hist, c)
  /\ UNCHANGED <<mc_client, mc_timeout_occurred, mc_connect, mc_net, mc_ui,
                 mc_cb, mc_last>>
  /\ UNCHANGED not_mc

\* the 10 s of the threading.Timer of attempt a are over: its thread starts
\* _timeout_callback
MC_timer_fires(a) ==
  /\ mc_tm[a] = "waiting"
  /\ mc_tm' = [mc_tm EXCEPT ![a] = "T101"]
  /\ UNCHANGED <<mc_client, mc_is_connected, mc_timer, mc_timeout_occurred,
                 mc_connect, mc_paho, mc_net, mc_ui, mc_cb, mc_hist, mc_last>>
  /\ UNCHANGED not_mc

\* _timeout_callback, lines 101-102: if self._connection_timeout_occurred: return
MC_timeout_T101(a) ==
  /\ mc_tm[a] = "T101"
  /\ mc_tm' = [mc_tm EXCEPT ![a] = IF mc_timeout_occurred THEN "done" ELSE "T103"]
  /\ UNCHANGED <<mc_client, mc_is_connected, mc_timer, mc_timeout_occurred,
                 mc_connect, mc_paho, mc_net, mc_ui, mc_cb, mc_hist, mc_last>>
  /\ UNCHANGED not_mc

\* _timeout_callback, line 103: if not self.is_connected
MC_timeout_T103(a) ==
  /\ mc_tm[a] = "T103"
  /\ mc_tm' = [mc_tm EXCEPT ![a] = IF mc_is_connected THEN "done" ELSE "T104"]
  /\ UNCHANGED <<mc_client, mc_is_connected, mc_timer, mc_timeout_occurred,
                 mc_connect, mc_paho, mc_net, mc_ui, mc_cb, mc_hist, mc_last>>
  /\ UNCHANGED not_mc

\* _timeout_callback, lines 104-107: self._connection_timeout_occurred =
\* True; self.connection_callback(False, "Connection timeout reached")
MC_timeout_T104(a) ==
  /\ mc_tm[a] = "T104"
  /\ mc_timeout_occurred' = TRUE
  /\ mc_cb' = MC_callback(mc_cb, a, "timeout")
  /\ mc_tm' = [mc_tm EXCEPT ![a] = "T108"]
  /\ UNCHANGED <<mc_client, mc_is_connected, mc_timer, mc_connect, mc_paho,
                 mc_net, mc_ui, mc_hist, mc_last>>
  /\ UNCHANGED not_mc

\* the current client has its socket
MC_sock_open == mc_client # 0 /\ mc_paho[mc_client].link \in {"connecting", "up", "refused"}

\* disconnect(), lines 54-57: if self.client: loop_stop() joins the client's
\* network thread, so it waits while that thread is inside a handler; then
\* client.disconnect(), which, the loop being stopped, writes the DISCONNECT
\* itself when the client has its socket and calls _on_disconnect (lines
\* 93-98) on the caller's thread: self.is_connected = False and the watchdog
\* is cancelled.  tm is mc_tm as the caller leaves it.
MC_disconnect_stop(tm) ==
  /\ mc_client # 0
  /\ mc_net[mc_client].pc = "idle"
  /\ mc_paho' = [mc_paho EXCEPT ![mc_client].loop = FALSE,
                                ![mc_client].link = "none"]
  /\ mc_is_connected' = IF MC_sock_open THEN FALSE ELSE mc_is_connected
  /\ mc_timer' = IF MC_sock_open THEN 0 ELSE mc_timer
  /\ mc_tm' = IF MC_sock_open THEN MC_cancel(tm, mc_timer) ELSE tm

\* disconnect(), lines 60-62: finally: self.is_connected = False;
\* self.client = None
MC_disconnect_finally ==
  /\ mc_is_connected' = FALSE
  /\ mc_client' = 0

\* _timeout_callback, line 108: self.disconnect(), on the timer thread
MC_timeout_T108(a) ==
  /\ mc_tm[a] = "T108"
  /\ IF mc_client = 0
       THEN /\ mc_tm' = [mc_tm EXCEPT ![a] = "done"]
            /\ UNCHANGED <<mc_paho, mc_is_connected, mc_timer>>
       ELSE MC_disconnect_stop([mc_tm EXCEPT ![a] = "D61"])
  /\ UNCHANGED <<mc_client, mc_timeout_occurred,
                 mc_connect, mc_net, mc_ui, mc_cb, mc_hist, mc_last>>
  /\ UNCHANGED not_mc

MC_timeout_D61(a) ==
  /\ mc_tm[a] = "D61"
  /\ MC_disconnect_finally
  /\ mc_tm' = [mc_tm EXCEPT ![a] = "done"]
  /\ UNCHANGED <<mc_timer, mc_timeout_occurred, mc_connect, mc_paho, mc_net,
                 mc_ui, mc_cb, mc_hist, mc_last>>
  /\ UNCHANGED not_mc

\* disconnect() called by the user of the handler (main_window.py,
\* _disconnect_from_broker and _on_closing)
MC_disconnect_D54 ==
  /\ mc_ui = "idle"
  /\ mc_client # 0
  /\ MC_disconnect_stop(mc_tm)
  /\ mc_ui' = "D61"
  /\ mc_hist' = MC_handled(mc_hist, mc_client)
  /\ UNCHANGED <<mc_client, mc_timeout_occurred,
                 mc_connect, mc_net, mc_cb, mc_last>>
  /\ UNCHANGED not_mc

MC_disconnect_D61 ==
  /\ mc_ui = "D61"
  /\ MC_disconnect_finally
  /\ mc_ui' = "idle"
  /\ UNCHANGED <<mc_timer, mc_timeout_occurred, mc_connect, mc_paho, mc_net,
                 mc_tm, mc_cb, mc_hist, mc_last>>
  /\ UNCHANGED not_mc

\* publish() without its check of is_connected
MC_publish_unchecked(is_connected, client) ==
  IF client = 0 THEN "AttributeError" ELSE "none"

\* publish(), lines 64-68: what it raises
MC_publish_raises(is_connected, client) ==
  IF ~is_connected THEN "Exception"
  ELSE IF client = 0 THEN "AttributeError" ELSE "none"

\* publish(topic, message)
MC_publish(topic) ==
  /\ LET raised == MC_publish_raises(mc_is_connected, mc_client) IN
     mc_last' = [MC_NoPublish EXCEPT !.op = "publish",
                   !.pre_connected = mc_is_connected,
                   !.raised = raised,
                   !.calls = IF raised = "none" THEN <<"publish">> ELSE <<>>]
  /\ UNCHANGED <<mc_client, mc_is_connected, mc_timer, mc_timeout_occurred,
                 mc_connect, mc_paho, mc_net, mc_tm, mc_ui, mc_cb, mc_hist>>
  /\ UNCHANGED not_mc


-----------------------------------------------------------------------------
(* src/gui/main_window.py: the broadcast.  _start_broadcast and               *)
(* _check_broadcast_complete run on the Tk event loop, one at a time; each   *)
(* worker is a thread of its own.                                            *)

\* the number of broadcasts started in a run
MaxBatches == 2
\* the largest repeat count of a broadcast
MaxCount == 2
\* the largest number of worker threads of a broadcast
MaxThreads == 2

Batches == 1..MaxBatches
WorkerIds == Batches \X (1..MaxThreads)
TargetLists == {<<"a">>, <<"a", "b">>}

BC_NoWorker == [pc |-> "none", channel |-> "", job |-> 0]
BC_NoReport == [n |-> 0, processed |-> FALSE, exited |-> FALSE]

BC_Init ==
  /\ bc_batch = 0
  /\ bc_queue = <<>>
  /\ bc_stats = [total_sent |-> 0, failed_sends |-> 0, total_messages |-> 0]
  /\ bc_workers = [w \in WorkerIds |-> BC_NoWorker]
  /\ bc_poll = 0
  /\ bc_button = "normal"
  /\ bc_report = [b \in Batches |-> BC_NoReport]
  /\ bc_owed = [b \in Batches |-> [t \in Topics |-> 0]]
  /\ bc_any_ok = FALSE
  /\ bc_after = FALSE

\* for _ in range(count): for channel in target_channels: queue.put(channel)
RECURSIVE BC_jobs(_, _)
BC_jobs(count, target_channels) ==
  IF count = 0 THEN <<>> ELSE target_channels \o BC_jobs(count - 1, target_channels)

\* the worker threads that have been started and have not returned
BC_Running == {w \in WorkerIds : bc_workers[w].pc \in {"get", "send"}}

\* _on_connect with rc = 0, lines 76-77, as the broadcast sees it: the
\* connection is up (again)
BC_on_connect ==
  /\ ~mc_is_connected
  /\ mc_is_connected' = TRUE
  /\ mc_client' = 1
  /\ UNCHANGED <<bc_vars, not_bc>>

\* _on_disconnect, line 93, as the broadcast sees it: the connection is lost
\* while a broadcast may be running
BC_on_disconnect ==
  /\ mc_is_connected
  /\ mc_is_connected' = FALSE
  /\ UNCHANGED <<mc_client, bc_vars, not_bc>>

\* disconnect() of mqtt_connection.py, lines 52-62, from the Disconnect
\* button (_disconnect_from_broker), as the broadcast sees it:
\* self.is_connected = False and self.client = None
BC_disconnect ==
  /\ mc_client # 0
  /\ mc_is_connected' = FALSE
  /\ mc_client' = 0
  /\ UNCHANGED <<bc_vars, not_bc>>

\* _perform_broadcast without its last line, root.after(100, ...)
_perform_broadcast_unpolled(count, target_channels, num_threads) ==
  /\ bc_button = "normal"
  /\ bc_batch < MaxBatches
  /\ mc_is_connected
  /\ bc_batch' = bc_batch + 1
  /\ bc_stats' = [total_sent |-> 0, failed_sends |-> 0,
                  total_messages |-> count * Len(target_channels)]
  /\ bc_queue' = BC_jobs(count, target_channels)
  /\ bc_button' = "disabled"
  /\ bc_workers' = [w \in WorkerIds |->
                      IF w[1] = bc_batch + 1 /\ w[2] <= num_threads
                        THEN [BC_NoWorker EXCEPT !.pc = "get"]
                        ELSE bc_workers[w]]
  /\ bc_owed' = [bc_owed EXCEPT ![bc_batch + 1] = [t \in Topics |->
                    IF \E i \in DOMAIN target_channels : target_channels[i] = t
                      THEN count ELSE 0]]
  /\ UNCHANGED <<bc_poll, bc_report, bc_any_ok, bc_after, mc_session, not_bc>>

\* _start_broadcast (lines 224-241) and _perform_broadcast (lines 243-270):
\* the button's command, so it runs only while the button is enabled
_perform_broadcast(count, target_channels, num_threads) ==
  /\ bc_button = "normal"
  /\ bc_batch < MaxBatches
  /\ mc_is_connected
  /\ LET b == bc_batch + 1 IN
     /\ bc_batch' = b
     /\ bc_stats' = [total_sent |-> 0, failed_sends |-> 0,
                     total_messages |-> count * Len(target_channels)]
     /\ bc_queue' = BC_jobs(count, target_channels)
     /\ bc_button' = "disabled"
     /\ bc_workers' = [w \in WorkerIds |->
                         IF w[1] = b /\ w[2] <= num_threads
                           THEN [BC_NoWorker EXCEPT !.pc = "get"]
                           ELSE bc_workers[w]]
     /\ bc_poll' = b
     /\ bc_owed' = [bc_owed EXCEPT ![b] = [t \in Topics |->
                       IF \E i \in DOMAIN target_channels : target_channels[i] = t
                         THEN count ELSE 0]]
  /\ UNCHANGED <<bc_report, bc_any_ok, bc_after, mc_session, not_bc>>

\* a worker that reads the head of the queue and leaves it there
_worker_get_peek(w) ==
  /\ bc_workers[w].pc = "get"
  /\ IF bc_queue = <<>>
       THEN bc_workers' = [bc_workers EXCEPT ![w] = [BC_NoWorker EXCEPT !.pc = "exited"]]
       ELSE bc_workers' = [bc_workers EXCEPT ![w] =
                             [pc |-> "send", channel |-> Head(bc_queue), job |-> bc_batch]]
  /\ UNCHANGED <<bc_batch, bc_queue, bc_stats, bc_poll, bc_button, bc_report,
                 bc_owed, bc_any_ok, bc_after, mc_session, not_bc>>

\* _worker_send_message, lines 275-278: channel = queue.get_nowait(), or the
\* worker returns when the queue is empty
_worker_get(w) ==
  /\ bc_workers[w].pc = "get"
  /\ IF bc_queue = <<>>
       THEN /\ bc_workers' = [bc_workers EXCEPT ![w] = [BC_NoWorker EXCEPT !.pc = "exited"]]
            /\ UNCHANGED bc_queue
       ELSE /\ bc_workers' = [bc_workers EXCEPT ![w] =
                                [pc |-> "send", channel |-> Head(bc_queue), job |-> bc_batch]]
            /\ bc_queue' = Tail(bc_queue)
  /\ UNCHANGED <<bc_batch, bc_stats, bc_poll, bc_button, bc_report,
                 bc_owed, bc_any_ok, bc_after, mc_session, not_bc>>

\* _worker_send_message, lines 279-294: self.mqtt.publish(channel, message),
\* then total_sent += 1, or failed_sends += 1 when it raised, under the lock;
\* the progress is handed to the event loop with root.after(0, ...);
\* then time.sleep(delay) and queue.task_done(), which change nothing that is
\* read anywhere (nothing joins the queue), and back to get_nowait()
_worker_send(w) ==
  /\ bc_workers[w].pc = "send"
  /\ LET ok == MC_publish_raises(mc_is_connected, mc_client) = "none"
         wk == bc_workers[w]
     IN
     /\ bc_stats' = IF ok THEN [bc_stats EXCEPT !.total_sent = @ + 1]
                          ELSE [bc_stats EXCEPT !.failed_sends = @ + 1]
     /\ bc_owed' = [bc_owed EXCEPT ![wk.job][wk.channel] = @ - 1]
     /\ bc_any_ok' = (bc_any_ok \/ ok)
     /\ bc_workers' = [bc_workers EXCEPT ![w] = [BC_NoWorker EXCEPT !.pc = "get"]]
  /\ bc_after' = TRUE
  /\ UNCHANGED <<bc_batch, bc_queue, bc_poll, bc_button, bc_report,
                 mc_session, not_bc>>

\* _check_broadcast_complete (lines 296-301), every 100 ms, and
\* _finalize_broadcast (lines 310-322) when the queue is empty
_check_broadcast_complete ==
  /\ bc_poll # 0
  /\ IF bc_queue = <<>>
       THEN /\ bc_report' = [bc_report EXCEPT ![bc_poll] =
                               [n |-> @.n + 1,
                                processed |-> bc_stats.total_sent + bc_stats.failed_sends
                                                = bc_stats.total_messages,
                                exited |-> BC_Running = {}]]
            /\ bc_button' = "normal"
            /\ bc_poll' = 0
       ELSE UNCHANGED <<bc_report, bc_button, bc_poll>>
  /\ UNCHANGED <<bc_batch, bc_queue, bc_stats, bc_workers,
                 bc_owed, bc_any_ok, bc_after, mc_session, not_bc>>

\* the event loop runs the progress updates that the workers have queued
\* (line 291): self.controls.set_broadcast_state(True, progress), which
\* shows the progress on the button and disables it
\* (control_components.py 226-236)
BC_after_progress ==
  /\ bc_after
  /\ bc_after' = FALSE
  /\ bc_button' = "disabled"
  /\ UNCHANGED <<bc_batch, bc_queue, bc_stats, bc_workers, bc_poll, bc_report,
                 bc_owed, bc_any_ok, mc_session, not_bc>>

-----------------------------------------------------------------------------
(* src/gui/main_window.py: the channel statistics.  _update_channel_stats is *)
(* called by the broadcast workers ("sent") and, through _on_message, by the *)
(* network thread of the client ("received"); _load_channel_stats runs once  *)
(* at start-up and _save_channel_stats on the Tk event loop.                 *)

\* the threads that call _update_channel_stats
MaxStatThreads == 2
\* the calls one thread makes, over all runs of the program
MaxCalls == 2
\* the number of times the program is started
MaxRuns == 2

StatThreads == 1..MaxStatThreads

\* topics as sequences of characters: a plain one, and one that JSON escapes
StatOrder == << <<"a">>, <<"\"", "\\">> >>
StatTopics == {StatOrder[i] : i \in DOMAIN StatOrder}
Kinds == {"received", "sent"}

\* {"received": 0, "sent": 0}
ST_Zero == [received |-> 0, sent |-> 0]

\* the mapping with no topic
ST_Empty == [t \in {} |-> ST_Zero]

\* a mapping seen as a total one
ST_Total(m) == [t \in StatTopics |-> IF t \in DOMAIN m THEN m[t] ELSE ST_Zero]

\* an integer encoder that writes the last digit only
json_int_units(n) == <<n % 10>>

\* str(n) of json's integer encoder, as decimal digits
RECURSIVE json_int(_)
json_int(n) == IF n < 10 THEN <<n>> ELSE json_int(n \div 10) \o <<n % 10>>

\* int(digits) of json's decoder
RECURSIVE json_parse_int(_)
json_parse_int(d) ==
  IF Len(d) = 1 THEN d[1]
  ELSE json_parse_int(SubSeq(d, 1, Len(d) - 1)) * 10 + d[Len(d)]

\* json's string encoder: a quote and a backslash are written after a backslash
RECURSIVE json_str(_)
json_str(str) ==
  IF str = <<>> THEN <<>>
  ELSE (IF Head(str) \in {"\"", "\\"} THEN <<"\\", Head(str)>> ELSE <<Head(str)>>)
         \o json_str(Tail(str))

\* json's string decoder
RECURSIVE json_parse_str(_)
json_parse_str(text) ==
  IF text = <<>> THEN <<>>
  ELSE IF Head(text) = "\\" /\ Len(text) >= 2
         THEN <<text[2]>> \o json_parse_str(SubSeq(text, 3, Len(text)))
         ELSE <<Head(text)>> \o json_parse_str(Tail(text))

\* json.dump(self.channel_stats, f): one member per topic
RECURSIVE json_dump_from(_, _)
json_dump_from(m, i) ==
  IF i > Len(StatOrder) THEN <<>>
  ELSE (IF StatOrder[i] \in DOMAIN m
          THEN << [key |-> json_str(StatOrder[i]),
                   received |-> json_int(m[StatOrder[i]].received),
                   sent |-> json_int(m[StatOrder[i]].sent)] >>
          ELSE <<>>)
         \o json_dump_from(m, i + 1)

json_dump(m) == json_dump_from(m, 1)

\* json.load(f)
json_load(text) ==
  [t \in {json_parse_str(text[i].key) : i \in DOMAIN text} |->
     LET i == CHOOSE j \in DOMAIN text : json_parse_str(text[j].key) = t IN
     [received |-> json_parse_int(text[i].received),
      sent |-> json_parse_int(text[i].sent)]]

\* the file: absent, truncated by a save that failed, or JSON text
ST_NoFile == [state |-> "absent", text |-> <<>>]
ST_Partial == [state |-> "partial", text |-> <<>>]
ST_Json(m) == [state |-> "json", text |-> json_dump(m)]

\* what earlier runs of the program may have left in the file
ST_Files == {ST_Json([t \in {StatOrder[1]} |-> [received |-> 9, sent |-> 0]])}

ST_Idle == [pc |-> "idle", channel |-> <<>>, action |-> "", tmp |-> 0, calls |-> 0]
ST_NotSaved == [valid |-> FALSE, m |-> ST_Empty, run |-> 0]

ST_Init ==
  /\ st_channel_stats = ST_Empty
  /\ st_lock = 0
  /\ st_thread = [th \in StatThreads |-> ST_Idle]
  /\ st_loaded = FALSE
  /\ st_file = ST_NoFile
  /\ st_run = 1
  /\ st_saved = ST_NotSaved
  /\ st_expect = ST_Total(ST_Empty)
  /\ st_heard = [t \in StatTopics |-> 0]
  /\ st_ui_thread = "none"

\* the program is started in a directory where an earlier run has left a file
ST_file_left(file) ==
  /\ st_run = 1
  /\ ~st_loaded
  /\ st_file = ST_NoFile
  /\ st_file' = file
  /\ UNCHANGED <<st_channel_stats, st_lock, st_thread, st_loaded, st_run,
                 st_saved, st_expect, st_heard>>
  /\ UNCHANGED st_ui_thread
  /\ UNCHANGED not_st

\* _load_channel_stats, lines 400-407, called once by _initialize_after_gui
\* on the event loop: when the file exists, a line is shown in the message
\* display
_load_channel_stats ==
  /\ ~st_loaded
  /\ st_loaded' = TRUE
  /\ st_channel_stats' = IF st_file.state = "json"
                           THEN json_load(st_file.text) ELSE st_channel_stats
  /\ st_expect' = ST_Total(st_channel_stats')
  /\ st_heard' = [t \in StatTopics |-> ST_Total(st_channel_stats')[t].received]
  /\ UNCHANGED <<st_lock, st_thread, st_file, st_run, st_saved>>
  /\ st_ui_thread' = IF st_file.state = "absent" THEN st_ui_thread ELSE "event_loop"
  /\ UNCHANGED not_st

\* _save_channel_stats, lines 409-414 (from _finalize_broadcast and
\* _on_closing): the file is opened for writing and the mapping dumped; an
\* exception on the way is shown and leaves the file cut short
_save_channel_stats(outcome) ==
  /\ st_loaded
  /\ IF outcome = "ok"
       THEN /\ st_file' = ST_Json(st_channel_stats)
            /\ st_saved' = [valid |-> TRUE, m |-> st_channel_stats, run |-> st_run]
       ELSE /\ st_file' = ST_Partial
            /\ st_saved' = ST_NotSaved
  /\ UNCHANGED <<st_channel_stats, st_lock, st_thread, st_loaded, st_run,
                 st_expect, st_heard>>
  /\ st_ui_thread' = IF outcome = "ok" THEN st_ui_thread ELSE "event_loop"
  /\ UNCHANGED not_st

\* the program ends and is started again: __init__, lines 29-31
ST_restart ==
  /\ st_loaded
  /\ st_run < MaxRuns
  /\ \A th \in StatThreads : st_thread[th].pc = "idle"
  /\ st_run' = st_run + 1
  /\ st_loaded' = FALSE
  /\ st_channel_stats' = ST_Empty
  /\ st_expect' = ST_Total(ST_Empty)
  /\ st_heard' = [t \in StatTopics |-> 0]
  /\ UNCHANGED <<st_lock, st_thread, st_file, st_saved>>
  /\ st_ui_thread' = "none"
  /\ UNCHANGED not_st

\* MQTTBroadcaster._on_message, lines 190-205, on the network thread:
\* message.payload.decode() raises for a payload that is not UTF-8, and the
\* except clause shows the error; else _update_channel_stats(channel, "received")
ST_on_message(th, channel, utf8) ==
  /\ st_loaded
  /\ st_thread[th].pc = "idle"
  /\ st_thread[th].calls < MaxCalls
  /\ st_heard' = [st_heard EXCEPT ![channel] = @ + 1]
  /\ st_thread' = [st_thread EXCEPT ![th] =
                     IF utf8
                       THEN [@ EXCEPT !.pc = "L391", !.channel = channel,
                                      !.action = "received", !.calls = @ + 1]
                       ELSE [@ EXCEPT !.calls = @ + 1]]
  /\ UNCHANGED <<st_channel_stats, st_lock, st_loaded, st_file, st_run,
                 st_saved, st_expect>>
  /\ st_ui_thread' = IF utf8 THEN st_ui_thread ELSE "network"
  /\ UNCHANGED not_st

\* _worker_send_message, line 281: _update_channel_stats(channel, "sent")
ST_worker_sent(th, channel) ==
  /\ st_loaded
  /\ st_thread[th].pc = "idle"
  /\ st_thread[th].calls < MaxCalls
  /\ st_thread' = [st_thread EXCEPT ![th] =
                     [@ EXCEPT !.pc = "L391", !.channel = channel,
                               !.action = "sent", !.calls = @ + 1]]
  /\ UNCHANGED <<st_channel_stats, st_lock, st_loaded, st_file, st_run,
                 st_saved, st_expect, st_heard>>
  /\ UNCHANGED st_ui_thread
  /\ UNCHANGED not_st

\* self.channel_stats with the key of a channel present
ST_with_channel(m, channel) ==
  [t \in DOMAIN m \cup {channel} |-> IF t \in DOMAIN m THEN m[t] ELSE ST_Zero]

\* _update_channel_stats without `with self._stats_lock`
_update_channel_stats_unlocked(th) ==
  /\ st_thread[th].pc = "L391"
  /\ st_channel_stats' = ST_with_channel(st_channel_stats, st_thread[th].channel)
  /\ st_thread' = [st_thread EXCEPT ![th].pc = "L394"]
  /\ UNCHANGED <<st_lock, st_loaded, st_file, st_run, st_saved, st_expect, st_heard>>
  /\ UNCHANGED st_ui_thread
  /\ UNCHANGED not_st

\* _update_channel_stats, lines 391-393: the lock is taken, the channel's
\* entry is made when it is missing
_update_channel_stats_L391(th) ==
  /\ st_thread[th].pc = "L391"
  /\ st_lock = 0
  /\ st_lock' = th
  /\ st_channel_stats' = ST_with_channel(st_channel_stats, st_thread[th].channel)
  /\ st_thread' = [st_thread EXCEPT ![th].pc = "L394"]
  /\ UNCHANGED <<st_loaded, st_file, st_run, st_saved, st_expect, st_heard>>
  /\ UNCHANGED st_ui_thread
  /\ UNCHANGED not_st

\* line 394, self.channel_stats[channel][action] += 1: the counter is read
_update_channel_stats_L394(th) ==
  /\ st_thread[th].pc = "L394"
  /\ LET thr == st_thread[th] IN
       st_thread' = [st_thread EXCEPT ![th] =
                       [thr EXCEPT !.pc = "L394_store",
                                   !.tmp = st_channel_stats[thr.channel][thr.action]]]
  /\ UNCHANGED <<st_channel_stats, st_lock, st_loaded, st_file, st_run,
                 st_saved, st_expect, st_heard>>
  /\ UNCHANGED st_ui_thread
  /\ UNCHANGED not_st

\* line 394: the counter is written; lines 396-398: the totals, the lock is
\* released, self.status_bar.update_message_count(...) configures the label
\* on the calling thread, the worker's or the network thread, and the call
\* returns
_update_channel_stats_store(th) ==
  /\ st_thread[th].pc = "L394_store"
  /\ LET thr == st_thread[th] IN
     /\ st_channel_stats' = [st_channel_stats EXCEPT
                               ![thr.channel][thr.action] = thr.tmp + 1]
     /\ st_expect' = [st_expect EXCEPT ![thr.channel][thr.action] = @ + 1]
     /\ st_thread' = [st_thread EXCEPT ![th] = [ST_Idle EXCEPT !.calls = thr.calls]]
  /\ st_lock' = IF st_lock = th THEN 0 ELSE st_lock
  /\ UNCHANGED <<st_loaded, st_file, st_run, st_saved, st_heard>>
  /\ st_ui_thread' = IF st_thread[th].action = "sent" THEN "worker" ELSE "network"
  /\ UNCHANGED not_st

-----------------------------------------------------------------------------
(* src/gui/components/control_components.py and src/gui/main_window.py: the *)
(* connect button.  _toggle_connection is the button's command and runs on   *)
(* the Tk event loop; mqtt.connect runs on a connect_thread; the handler of  *)
(* mqtt_connection.py calls _on_connection_status and _on_disconnection from *)
(* its own threads.                                                          *)

\* the clicks on the connect button in a run
MaxPresses == 5

\* what _get_connection_info finds in the entries
ConnectionInfo == {"valid", "empty_host", "bad_port"}

CC_Connect == [text |-> "Connect", state |-> "normal"]
CC_Connecting == [text |-> "Connecting...", state |-> "disabled"]
CC_Disconnect == [text |-> "Disconnect", state |-> "normal"]

CC_Init ==
  /\ cc_button = CC_Connect
  /\ cc_thread = FALSE
  /\ cc_after = FALSE
  /\ cc_session = "none"
  /\ cc_status = "Disconnected"
  /\ cc_presses = 0

\* set_connected_state(is_connected), lines 183-188
set_connected_state(is_connected) ==
  IF is_connected THEN CC_Disconnect ELSE CC_Connect

\* _get_connection_info, lines 158-181: the dictionary, or None after the
\* error box for an empty host or a port that is no number in 0..65535
_get_connection_info(info) == info = "valid"

\* _on_connection_status(is_connected), main_window.py 175-183
_on_connection_status(is_connected) ==
  /\ cc_button' = set_connected_state(is_connected)
  /\ cc_status' = IF is_connected THEN "Connected" ELSE "Disconnected"

\* _toggle_connection, lines 147-156: the user clicks the button, which Tk
\* allows only while its state is normal.  On "Connect" the button is set to
\* "Connecting...", disabled, and then the entries are read: with valid input
\* _connect_to_broker (main_window.py 152-168) starts a connect_thread.
\* Otherwise _disconnect_from_broker (170-173): mqtt.disconnect() and
\* set_connected_state(False).
_toggle_connection(info) ==
  /\ cc_button.state = "normal"
  /\ cc_presses < MaxPresses
  /\ cc_presses' = cc_presses + 1
  /\ IF cc_button.text = "Connect"
       THEN /\ cc_button' = CC_Connecting
            /\ cc_thread' = (cc_thread \/ _get_connection_info(info))
            /\ UNCHANGED <<cc_session, cc_status>>
       ELSE /\ cc_button' = set_connected_state(FALSE)
            /\ cc_session' = "none"
            /\ UNCHANGED <<cc_thread, cc_status>>
  /\ UNCHANGED cc_after
  /\ UNCHANGED not_cc

\* connect_thread, main_window.py 154-164: self.mqtt.connect(...) either
\* returns with the watchdog armed, or calls the connection callback with
\* False and raises (mqtt_connection.py 43-50), and the except clause queues
\* a second _on_connection_status(False, ...) with root.after(0, ...)
CC_connect_thread(dial) ==
  /\ cc_thread
  /\ cc_thread' = FALSE
  /\ IF dial = "ok"
       THEN /\ cc_session' = "waiting"
            /\ UNCHANGED <<cc_button, cc_status, cc_after>>
       ELSE /\ _on_connection_status(FALSE)
            /\ cc_after' = TRUE
            /\ cc_session' = "none"
  /\ UNCHANGED cc_presses
  /\ UNCHANGED not_cc

\* the event loop runs the queued _on_connection_status(False, error_msg)
CC_after_status ==
  /\ cc_after
  /\ cc_after' = FALSE
  /\ _on_connection_status(FALSE)
  /\ UNCHANGED <<cc_thread, cc_session, cc_presses>>
  /\ UNCHANGED not_cc

\* _on_connect of mqtt_connection.py, lines 70-84, with the CONNACK's reason
\* code: the watchdog is cancelled and the connection callback is called
CC_on_connect(rc) ==
  /\ cc_session = "waiting"
  /\ cc_session' = IF rc = 0 THEN "up" ELSE "down"
  /\ _on_connection_status(rc = 0)
  /\ UNCHANGED <<cc_thread, cc_after, cc_presses>>
  /\ UNCHANGED not_cc

\* _timeout_callback of mqtt_connection.py, lines 100-108: no CONNACK within
\* 10 s; the connection callback is called with False, then disconnect()
CC_timeout_callback ==
  /\ cc_session = "waiting"
  /\ cc_session' = "none"
  /\ _on_connection_status(FALSE)
  /\ UNCHANGED <<cc_thread, cc_after, cc_presses>>
  /\ UNCHANGED not_cc

\* _on_disconnect of mqtt_connection.py, lines 91-98, and _on_disconnection,
\* main_window.py 185-188: the status bar shows Disconnected; the button is
\* left as it is
CC_on_disconnection ==
  /\ cc_session = "up"
  /\ cc_session' = "down"
  /\ cc_status' = "Disconnected"
  /\ UNCHANGED <<cc_button, cc_thread, cc_after, cc_presses>>
  /\ UNCHANGED not_cc

CC_Next ==
  \/ \E info \in ConnectionInfo : _toggle_connection(info)
  \/ \E dial \in {"ok", "raise"} : CC_connect_thread(dial)
  \/ CC_after_status
  \/ \E rc \in ReasonCodes : CC_on_connect(rc)
  \/ CC_timeout_callback
  \/ CC_on_disconnection

ST_Next ==
  \/ \E file \in ST_Files : ST_file_left(file)
  \/ _load_channel_stats
  \/ \E outcome \in {"ok", "raise"} : _save_channel_stats(outcome)
  \/ ST_restart
  \/ \E th \in StatThreads, channel \in StatTopics, utf8 \in BOOLEAN :
       ST_on_message(th, channel, utf8)
  \/ \E th \in StatThreads, channel \in StatTopics : ST_worker_sent(th, channel)
  \/ \E th \in StatThreads : _update_channel_stats_L391(th)
  \/ \E th \in StatThreads : _update_channel_stats_L394(th)
  \/ \E th \in StatThreads : _update_channel_stats_store(th)

BC_Next ==
  \/ BC_on_connect
  \/ BC_on_disconnect
  \/ \E count \in 1..MaxCount, target_channels \in TargetLists,
        num_threads \in 1..MaxThreads :
       _perform_broadcast(count, target_channels, num_threads)
  \/ \E w \in WorkerIds : _worker_get(w)
  \/ \E w \in WorkerIds : _worker_send(w)
  \/ _check_broadcast_complete
  \/ BC_after_progress

MH_Next ==
  \/ MH_connect
  \/ MH_disconnect
  \/ \E topic \in Topics : MH_publish(topic)
  \/ \E topic \in Topics, qos \in QoS : MH_subscribe(topic, qos)
  \/ \E topic \in Topics : MH_unsubscribe(topic)
  \/ \E c \in 1..MaxClients, rc \in ReasonCodes : MH_on_connect(c, rc)
  \/ \E rc \in ReasonCodes : MH_on_connect_unconfigured(rc)
  \/ \E c \in 1..MaxClients, topic \in Topics : MH_on_message(c, topic)
  \/ \E c \in 1..MaxClients, rc \in DisconnectCodes \cup {5} : MH_on_disconnect(c, rc)
  \/ \E c \in 1..MaxClients : MH_client_reconnect(c)

MC_Next ==
  \/ \E a \in Attempts : MC_connect_L23(a)
  \/ \E a \in Attempts : MC_connect_L24(a)
  \/ \E a \in Attempts, dial \in {"ok", "raise"} : MC_connect_L37(a, dial)
  \/ \E a \in Attempts : MC_connect_L38(a)
  \/ \E a \in Attempts : MC_connect_L41(a)
  \/ \E a \in Attempts : MC_connect_L44(a)
  \/ \E c \in Attempts, rc \in ReasonCodes : MC_on_connect_N72(c, rc)
  \/ \E c \in Attempts : MC_on_connect_N75(c)
  \/ \E c \in Attempts : MC_on_connect_N77(c)
  \/ \E c \in Attempts, rc \in DisconnectCodes \cup {5} : MC_on_disconnect(c, rc)
  \/ \E a \in Attempts : MC_timer_fires(a)
  \/ \E a \in Attempts : MC_timeout_T101(a)
  \/ \E a \in Attempts : MC_timeout_T103(a)
  \/ \E a \in Attempts : MC_timeout_T104(a)
  \/ \E a \in Attempts : MC_timeout_T108(a)
  \/ \E a \in Attempts : MC_timeout_D61(a)
  \/ MC_disconnect_D54
  \/ MC_disconnect_D61
  \/ \E topic \in Topics : MC_publish(topic)

Init == MH_Init /\ MC_Init /\ BC_Init /\ ST_Init /\ CC_Init

\* the handler of mqtt_handler.py on its own
SpecMH == Init /\ [][MH_Next]_vars

\* paho's network threads go on: a refused connection is reported through
\* on_disconnect, a closed one is dialled again.  That a broker answers, or
\* that a connection is lost, is not assumed.
MH_Fairness ==
  \A c \in 1..MaxClients :
    /\ WF_vars(MH_on_disconnect(c, 5))
    /\ WF_vars(MH_client_reconnect(c))

SpecMHLive == Init /\ [][MH_Next]_vars /\ MH_Fairness

\* the handler of mqtt_connection.py on its own
SpecMC == Init /\ [][MC_Next]_vars

\* a run uses one of the two handlers: each steps only while the other is
\* as constructed
MH_Alone == MC_Init /\ MH_Next
MC_Alone == MH_Init /\ MC_Next

Handler_Next ==
  \/ MH_Alone
  \/ MC_Alone

SpecHandler == Init /\ [][Handler_Next]_vars

\* the scheduler runs every started worker thread, and the Tk event loop
\* runs the pending after(100, _check_broadcast_complete)
BC_Fairness ==
  /\ \A w \in WorkerIds : WF_vars(_worker_get(w)) /\ WF_vars(_worker_send(w))
  /\ WF_vars(_check_broadcast_complete)

SpecBC == Init /\ [][BC_Next]_vars /\ BC_Fairness

\* the broadcast with a user who also presses Disconnect
BCD_Next ==
  \/ BC_Next
  \/ BC_disconnect

SpecBCD == Init /\ [][BCD_Next]_vars

\* the channel statistics on their own
SpecST == Init /\ [][ST_Next]_vars

\* the connect thread runs, the event loop runs what is queued, and a
\* watchdog that is not cancelled fires.  That the broker answers, or that
\* the user clicks again, is not assumed.
CC_Fairness ==
  /\ \A dial \in {"ok", "raise"} : WF_vars(CC_connect_thread(dial))
  /\ WF_vars(CC_after_status)
  /\ WF_vars(CC_timeout_callback)

SpecCC == Init /\ [][CC_Next]_vars /\ CC_Fairness

-----------------------------------------------------------------------------
(* The claims *)

\* C1: after connect() and then exactly one on-connect event with reason
\* code 0, and no other event, is_connected is true and the connection
\* callback has been invoked exactly once, with success = true.
C1_OnConnectSuccess ==
  (/\ mh_since.connect = "ok"
   /\ mh_since.on_connect_ok = 1
   /\ mh_since.on_connect_fail = 0
   /\ mh_since.other = 0)
  => (mh_is_connected /\ mh_since.conn_cb = <<TRUE>>)

\* C2: after an on-connect event with a reason code other than 0, whatever
\* the state before it, is_connected is false and the event has invoked the
\* connection callback exactly once, with success = false.
C2_OnConnectFailure ==
  (mh_last.op = "on_connect" /\ mh_last.rc # 0)
  => (~mh_is_connected /\ mh_last.conn_cb = <<FALSE>>)

\* C3: publish() called while is_connected is false raises the handler's
\* not-connected error and makes no call on the paho client, in both handlers.
C3_PublishNotConnected ==
  /\ (mh_last.op = "publish" /\ ~mh_last.pre_connected)
       => (mh_last.raised = "RuntimeError" /\ mh_last.calls = <<>>)
  /\ (mc_last.op = "publish" /\ ~mc_last.pre_connected)
       => (mc_last.raised = "Exception" /\ mc_last.calls = <<>>)

\* publish() has raised after the watchdog reported a timeout
C3_Witness ==
  /\ mc_last.op = "publish" /\ ~mc_last.pre_connected
  /\ mc_last.raised = "Exception"
  /\ \E a \in Attempts : mc_cb[a].timeout > 0

\* C4: when the watchdog of an attempt has run and no on-connect had arrived
\* for the attempt before it reported, the attempt's connection callback was
\* invoked exactly once, for the timeout; and an on-connect with rc = 0 that
\* arrives after the report invokes no callback and leaves is_connected false.
C4_WatchdogTimeout ==
  \A a \in Attempts :
    /\ (mc_tm[a] = "done" /\ ~mc_hist[a].oc_early)
         => mc_cb[a] = [MC_CbNone EXCEPT !.timeout = 1]
    /\ (mc_hist[a].oc_late_ok /\ mc_net[a].pc = "idle" /\ mc_connect[a] = "done"
        /\ \A b \in Attempts : b > a => mc_connect[b] = "idle")
         => (mc_cb[a].success = 0 /\ ~mc_is_connected)

\* C5: the connection callback is invoked at most once for a connect attempt,
\* whether for success, failure, timeout or the error of the dial.
C5_CallbackAtMostOnce ==
  \A a \in Attempts :
    mc_cb[a].success + mc_cb[a].failure + mc_cb[a].timeout + mc_cb[a].error <= 1

\* C6: disconnect() on a handler that has never connected, or right after a
\* disconnect(), raises nothing, makes no call on a paho client and invokes
\* no disconnection callback.
C6_DisconnectIdempotent ==
  (/\ mh_last.op = "disconnect"
   /\ ~mh_last.pre_connected
   /\ (mh_last.prev = "disconnect" \/ mh_since.connect = "none"))
  => (mh_last.raised = "none" /\ mh_last.calls = <<>> /\ mh_last.disc_cb = <<>>)

\* C7: when the completion of a broadcast is reported, every job has been
\* counted (total_sent + failed_sends = total_messages) and every worker
\* thread has returned.
C7_CompleteAtReport ==
  \A b \in Batches :
    bc_report[b].n > 0 => (bc_report[b].processed /\ bc_report[b].exited)

\* C8: the completion of each started broadcast is reported, and never a
\* second time.
C8_ReportedOnce ==
  /\ [](\A b \in Batches : bc_report[b].n <= 1)
  /\ \A b \in Batches : (bc_batch = b) ~> (bc_report[b].n = 1)

\* two broadcasts have run and each has been reported
C8_Witness ==
  \A b \in Batches : bc_report[b].n = 1

\* C9: when every publish call has failed, a broadcast that has ended (its
\* completion reported, every worker returned) has failed_sends =
\* total_messages and total_sent = 0.
C9_AllFailed ==
  (/\ ~bc_any_ok
   /\ bc_batch > 0
   /\ bc_report[bc_batch].n > 0
   /\ BC_Running = {})
  => (bc_stats.failed_sends = bc_stats.total_messages /\ bc_stats.total_sent = 0)

\* no job of batch b is in the queue or in a worker's hands
BC_Processed(b) ==
  /\ b <= bc_batch
  /\ b = bc_batch => bc_queue = <<>>
  /\ \A w \in WorkerIds : ~(bc_workers[w].pc = "send" /\ bc_workers[w].job = b)

\* C10: publish is never attempted more than count times for a topic of a
\* broadcast, and once no job of the broadcast is left, it has been attempted
\* exactly count times for each target and for no other topic.
C10_EachJobOnce ==
  \A b \in Batches : \A t \in Topics :
    /\ bc_owed[b][t] >= 0
    /\ BC_Processed(b) => bc_owed[b][t] = 0

\* a broadcast of 2 x 2 jobs with two workers has been processed
C10_Witness ==
  /\ bc_batch > 0
  /\ bc_stats.total_messages = 4
  /\ bc_stats.total_sent + bc_stats.failed_sends = 4
  /\ BC_Processed(bc_batch)
  /\ \A i \in 1..MaxThreads : bc_workers[<<bc_batch, i>>].pc = "exited"

\* no thread is inside _update_channel_stats
ST_Quiet == \A th \in StatThreads : st_thread[th].pc = "idle"

\* C11: when the concurrent calls of the channel-statistics increment have
\* returned, every counter is its value at load plus the number of calls made
\* for its topic and kind: no increment is lost.
C11_NoLostIncrement ==
  (st_loaded /\ ST_Quiet) => ST_Total(st_channel_stats) = st_expect

\* two threads have made two calls each for one topic and kind
C11_Witness ==
  /\ st_run = 1
  /\ ST_Quiet
  /\ \A th \in StatThreads : st_thread[th].calls = MaxCalls
  /\ \E t \in DOMAIN st_channel_stats :
       st_channel_stats[t].sent = MaxStatThreads * MaxCalls

C17_MessageCounted ==
  (st_loaded /\ ST_Quiet) =>
    \A t \in StatTopics : ST_Total(st_channel_stats)[t].received = st_heard[t]

\* C14: subscribe() and unsubscribe() called while is_connected is false raise
\* the handler's not-connected error, make no call on the paho client and
\* leave the registry of subscriptions as it was.
C14_SubscribeNotConnected ==
  (mh_last.op \in {"subscribe", "unsubscribe"} /\ ~mh_last.pre_connected)
  => (mh_last.raised = "RuntimeError" /\ mh_last.calls = <<>> /\ mh_last.subs_kept)

\* unsubscribe() has raised on a session that lost its connection and still
\* holds subscriptions
C14_Witness ==
  /\ mh_last.op = "unsubscribe" /\ ~mh_last.pre_connected
  /\ mh_last.raised = "RuntimeError"
  /\ mh_wildcard_subscriptions # {}

\* C15: connect() with no configuration or an invalid one (empty host, port
\* out of range, empty topic) raises; it builds no client, makes no call on a
\* client and does not invoke the connection callback.
C15_InvalidConfig ==
  (mh_last.op = "connect" /\ mh_last.invalid)
  => (/\ mh_last.raised # "none"
      /\ ~mh_last.built
      /\ mh_last.calls = <<>>
      /\ mh_last.conn_cb = <<>>)

\* C16: when the construction of the client or the dial raises inside
\* connect(), connect() raises and has invoked the connection callback exactly
\* once, with success = false.
C16_ConnectRaises ==
  (mh_last.op = "connect" /\ mh_last.at \in {"configure", "dial"})
  => (mh_last.raised # "none" /\ mh_last.conn_cb = <<FALSE>>)

\* C18: disconnect() on a session with is_connected true leaves is_connected
\* false, and the disconnection callback is invoked then or later.
C18_DisconnectReported ==
  /\ []((mh_last.op = "disconnect" /\ mh_last.pre_connected) => ~mh_is_connected)
  /\ ((mh_disc = "called") ~> (mh_disc = "reported"))

\* C19: at most one paho client of a session has a running network loop, and
\* it is the session's current client.
C19_OneRunningClient ==
  \A c \in 1..Len(mh_clients) : mh_clients[c].loop => c = mh_client

\* C20: is_connected is true only while the current client is connected, that
\* is, has had its on-connect success and no on-disconnect or disconnect()
\* since.
C20_ConnectedMeansCurrentUp ==
  mh_is_connected => (mh_client # 0 /\ mh_clients[mh_client].link = "up")

\* C13: a publish attempted by a worker while the session is disconnected is
\* counted in failed_sends and the worker goes on to its next job; and a
\* broadcast in which publishes failed, the session having been disconnected
\* while it ran, is reported complete with every job counted.
C13_DisconnectMidBroadcast ==
  /\ [][\A w \in WorkerIds :
          (bc_workers[w].pc = "send" /\ bc_workers'[w].pc # "send" /\ ~mc_is_connected)
          => (/\ bc_stats'.failed_sends = bc_stats.failed_sends + 1
              /\ bc_stats'.total_sent = bc_stats.total_sent
              /\ bc_workers'[w].pc = "get")]_vars
  /\ []((bc_batch > 0 /\ bc_stats.failed_sends > 0 /\ bc_report[bc_batch].n > 0)
          => bc_report[bc_batch].processed)

\* C21, on a session that has built one client only: once an attempt has been
\* reported as failed to the connection callback, no success is reported
\* after it (and so is_connected is not set) unless connect() has been called
\* again.
C21_FailedStaysDisconnected ==
  LET cb == mh_since.conn_cb IN
  (mh_since.connect = "ok" /\ Len(mh_clients) = 1)
  => \A i, j \in DOMAIN cb : (i < j /\ ~cb[i]) => ~cb[j]

\* C22: when disconnect() was called for an attempt, or an on-connect or
\* on-disconnect event of its client was handled, before the attempt's
\* watchdog fired, no timeout failure is reported to the connection callback
\* for that attempt.
C22_WatchdogCancelled ==
  \A a \in Attempts : mc_hist[a].before_fire => mc_cb[a].timeout = 0

\* C23: an on-connect with reason code 0 issues a subscribe for every
\* (topic, qos) entry of the registry and, when a configuration with a topic
\* is stored, for the configured topic with the configured QoS.
C23_ResubscribeOnConnect ==
  (mh_last.op = "on_connect" /\ mh_last.rc = 0)
    => mh_last.subscribed = mh_wildcard_subscriptions \cup
         (IF mh_config # NoConfig /\ mh_config.topic # ""
            THEN {<<mh_config.topic, mh_config.qos>>} ELSE {})

\* C24: an on-disconnect event (the link of a client goes down) leaves
\* is_connected false, invokes the disconnection callback once, with the
\* reason code of the event, and changes neither the registry of
\* subscriptions nor the stored configuration.
C24_OnDisconnectFrame ==
  [][\A c \in 1..Len(mh_clients) :
       (mh_clients[c].link \in {"up", "refused"} /\ mh_clients'[c].link = "down")
       => (/\ ~mh_is_connected'
           /\ mh_last'.op = "on_disconnect"
           /\ mh_last'.disc_cb = <<mh_last'.rc>>
           /\ (mh_clients[c].link = "refused" => mh_last'.rc = 5)
           /\ mh_last'.conn_cb = <<>>
           /\ mh_wildcard_subscriptions' = mh_wildcard_subscriptions
           /\ mh_config' = mh_config)]_vars

\* an established connection with subscriptions in the registry was lost
\* (rc = 7) and the event has been handled
C24_Witness ==
  /\ mh_last.op = "on_disconnect" /\ mh_last.pre_connected
  /\ mh_last.rc = 7 /\ mh_last.disc_cb = <<7>>
  /\ mh_wildcard_subscriptions # {}
  /\ ~mh_is_connected

\* C25: no widget is updated on a broadcast worker thread or on the network
\* thread: every update of the user interface runs on the event loop.
C25_UiOnEventLoop ==
  st_ui_thread \in {"none", "event_loop"}

\* C26: whatever the configured protocol version, and whether or not a
\* configuration has been set, an on-connect with reason code 0 leaves
\* is_connected true and invokes the connection callback once with success,
\* and an on-connect with another reason code invokes it once with failure.
C26_OnConnectByReasonCode ==
  (mh_last.op = "on_connect")
    => IF mh_last.rc = 0
         THEN mh_is_connected /\ mh_last.conn_cb = <<TRUE>>
         ELSE mh_last.conn_cb = <<FALSE>>

\* C27: the watchdog armed by attempt a reports its timeout only while no
\* later connect() has started, and its disconnect() neither disconnects nor
\* releases the client of a later attempt.
C27_WatchdogOwnAttempt ==
  [][\A a \in Attempts :
       /\ (mc_tm[a] = "T104" /\ mc_tm'[a] = "T108")
            => \A b \in Attempts : b > a => mc_connect[b] = "idle"
       /\ (mc_tm[a] = "T108" /\ mc_tm'[a] = "D61") => mc_client <= a
       /\ (mc_tm[a] = "D61" /\ mc_tm'[a] = "done") => mc_client <= a]_vars

\* C28: every worker thread that is running belongs to the broadcast started
\* last, so the queue and the counters of a broadcast are read and updated by
\* its own workers only, and a step of a worker of an earlier broadcast
\* changes neither.
C28_OneBatchActive ==
  /\ [](\A w \in BC_Running : w[1] = bc_batch)
  /\ [][\A w \in WorkerIds :
          (w \in BC_Running /\ w[1] # bc_batch /\ bc_workers'[w] # bc_workers[w])
          => (bc_queue' = bc_queue /\ bc_stats' = bc_stats)]_vars

\* C29: no progress update of a broadcast is delivered to the control after
\* the completion of the broadcast has been reported, and from that report
\* until the next broadcast is started the broadcast button is enabled.
C29_ProgressBeforeCompletion ==
  /\ [][(bc_after /\ ~bc_after') => bc_poll # 0]_vars
  /\ [](bc_poll = 0 => bc_button = "normal")

\* C30: whenever the connect button is disabled ("Connecting..."), it is
\* eventually enabled again, showing Connect or Disconnect.
C30_ConnectButtonEnabledAgain ==
  (cc_button.state = "disabled") ~> (cc_button.state = "normal")

====
